---- MODULE Spec2Model ----
(***************************************************************************)
(* A state-machine model of etl.py: the Sparkify data-lake ETL job.  The   *)
(* process reads dl.cfg, acquires a Spark session, runs process_song_data  *)
(* and then process_log_data.  A DataFrame is a record                     *)
(*   [columns |-> set of column names, rows |-> sequence of rows],         *)
(* a row is a function from column names to values.  Spark transformations *)
(* are lazy, so each action below is one engine job (a read or a write)    *)
(* together with the transformations that job evaluates.                   *)
(***************************************************************************)
EXTENDS Integers, Sequences, FiniteSets, TLC

\* ------------------------------------------------------------- bounds
MaxCatalog == 2     \* rows under one catalog glob
MaxLog == 2         \* rows under the log glob
MaxSec == 1         \* the sampled seconds are 0 .. MaxSec times SecStep
MaxTs == 2100       \* the contiguous range of ts checked for the udfs
MaxRuns == 2        \* how often the job is started

\* one day, one hour, one minute and one second, so that the sampled
\* seconds differ in every calendar field
SecStep == 90061

\* ------------------------------------------------------------- values
NULL == "null"                       \* JSON null
SongIds == {"S1", "S2"}
Titles == {"T1", "T2"}
ArtistIds == {"A1", "A2"}
UserIds == {"U1", "U2"}
LogSongs == Titles \cup {NULL}
MsValues == {0, 999}
TsValues == {s * SecStep * 1000 + m : s \in 0..MaxSec, m \in MsValues}

CatalogColumns ==
    {"song_id", "title", "artist_id", "year", "duration", "artist_name",
     "artist_location", "artist_latitude", "artist_longitude"}
LogColumns ==
    {"ts", "userId", "firstName", "lastName", "gender", "level",
     "sessionId", "location", "userAgent", "song", "page"}

\* One line of a song_data file.  song_id, title and artist_id are free;
\* the other fields are tied to them so that two records sharing a key
\* differ in several non-key fields.
CatalogRecord(s, t, a) ==
    [song_id |-> s, title |-> t, artist_id |-> a,
     year |-> IF t = "T1" THEN 2018 ELSE 2019,
     duration |-> IF a = "A1" THEN 180 ELSE 240,
     artist_name |-> IF s = "S1" THEN "N1" ELSE "N2",
     artist_location |-> IF t = "T1" THEN "L1" ELSE "L2",
     artist_latitude |-> 0, artist_longitude |-> 0]

\* One line of a log_data file.  ts, userId and song are free.
LogRecord(ts, u, s) ==
    [ts |-> ts, userId |-> u, song |-> s,
     firstName |-> IF u = "U1" THEN "F1" ELSE "F2",
     lastName |-> IF u = "U1" THEN "G1" ELSE "G2",
     gender |-> IF u = "U1" THEN "F" ELSE "M",
     level |-> IF s = "T2" THEN "paid" ELSE "free",
     sessionId |-> ts \div 1000,
     location |-> "L1", userAgent |-> "UA",
     page |-> IF s = NULL THEN "Home" ELSE "NextSong"]

CatalogRecords == {CatalogRecord(s, t, a) : s \in SongIds, t \in Titles, a \in ArtistIds}
LogRecords == {LogRecord(ts, u, s) : ts \in TsValues, u \in UserIds, s \in LogSongs}

SeqsUpTo(S, n) == UNION {[1..k -> S] : k \in 0..n}

\* ------------------------------------------------------ DataFrame API
DataFrame(cols, rows) == [columns |-> cols, rows |-> rows]
NoDF == DataFrame({}, <<>>)

\* df['a', 'b', ...]: DataFrame.__getitem__ with a tuple is select(*cols)
Select(df, cols) ==
    DataFrame(cols, [i \in 1..Len(df.rows) |-> [c \in cols |-> df.rows[i][c]]])

\* df.withColumn(name, udf(df.ts)): values[i] is the udf's result for row i
WithColumn(df, name, values) ==
    DataFrame(df.columns \cup {name},
              [i \in 1..Len(df.rows) |-> df.rows[i] @@ (name :> values[i])])

FirstIndex(rows, key, k) ==
    CHOOSE i \in 1..Len(rows) :
        /\ rows[i][key] = k
        /\ \A j \in 1..(i - 1) : rows[j][key] # k

RECURSIVE Survivors(_, _, _, _)
Survivors(rows, key, f, i) ==
    IF i > Len(rows) THEN <<>>
    ELSE (IF FirstIndex(rows, key, rows[i][key]) = i
             THEN <<rows[f[rows[i][key]]]>> ELSE <<>>)
         \o Survivors(rows, key, f, i + 1)

\* variant with a fault: the deduplication is left out
DropDuplicatesNone(df, key) == {df}

RECURSIVE DistinctRows(_, _)
DistinctRows(rows, i) ==
    IF i > Len(rows) THEN <<>>
    ELSE (IF \E j \in 1..(i - 1) : rows[j] = rows[i] THEN <<>> ELSE <<rows[i]>>)
         \o DistinctRows(rows, i + 1)

\* variant with a fault: dropDuplicates() without the key, which drops only equal rows
DropDuplicatesWholeRow(df, key) == {DataFrame(df.columns, DistinctRows(df.rows, 1))}

\* df.dropDuplicates([key]): one row per value of key; which row of a
\* group survives is the engine's choice, so this is the set of outcomes
\* (rows listed in the order in which the keys first occur).
DropDuplicates(df, key) ==
    LET K == {df.rows[i][key] : i \in 1..Len(df.rows)}
        choices == {f \in [K -> 1..Len(df.rows)] :
                       \A k \in K : df.rows[f[k]][key] = k}
    IN {DataFrame(df.columns, Survivors(df.rows, key, f, 1)) : f \in choices}

\* SQL equality: a comparison with null is not true
SqlEq(a, b) == a # NULL /\ b # NULL /\ a = b

\* variant with a fault: the join condition is left out (a cross join)
RECURSIVE MatchRowAll(_, _, _)
MatchRowAll(l, rrows, j) ==
    IF j > Len(rrows) THEN <<>>
    ELSE <<l @@ rrows[j]>> \o MatchRowAll(l, rrows, j + 1)

RECURSIVE MatchRow(_, _, _)
MatchRow(l, rrows, j) ==
    IF j > Len(rrows) THEN <<>>
    ELSE (IF SqlEq(rrows[j].title, l.song) THEN <<l @@ rrows[j]>> ELSE <<>>)
         \o MatchRow(l, rrows, j + 1)

RECURSIVE JoinRows(_, _, _)
JoinRows(lrows, rrows, i) ==
    IF i > Len(lrows) THEN <<>>
    ELSE MatchRow(lrows[i], rrows, 1) \o JoinRows(lrows, rrows, i + 1)

\* df.join(song_df, song_df.title == df.song): the default, inner join
Join(left, right) ==
    DataFrame(left.columns \cup right.columns, JoinRows(left.rows, right.rows, 1))

\* ------------------------------------------------------------ the udfs
\* int(x) / 1000 and int(x) / 1000.0: Python's true division gives the
\* double nearest the quotient, held here as its whole part and its
\* fraction in thousandths.  For a quotient below 2^44 that double is
\* below the next whole number, so int() gives the whole part; for a
\* quotient that fromtimestamp accepts (years up to 9999, below 2^38) it
\* is within 2^-16 of the quotient, so the rounding to microseconds gives
\* the thousandths times 1000.
TrueDiv1000(x) == [whole |-> x \div 1000, milli |-> x % 1000]

\* variant with a fault: round(f) in place of int(f)
PyRound(f) == IF f.milli >= 500 THEN f.whole + 1 ELSE f.whole

\* int(f): truncation toward zero (f is never negative here)
PyInt(f) == f.whole

DigitChars == <<"0", "1", "2", "3", "4", "5", "6", "7", "8", "9">>

\* str(n) for an int n >= 0: its decimal digits
RECURSIVE PyStr(_)
PyStr(n) ==
    IF n < 10 THEN <<DigitChars[n + 1]>>
    ELSE PyStr(n \div 10) \o <<DigitChars[(n % 10) + 1]>>

\* get_timestamp = udf(lambda x: str(int(int(x) / 1000)))
get_timestamp(x) == PyStr(PyInt(TrueDiv1000(x)))

\* The proleptic Gregorian date of a day number (days since 1970-01-01)
CivilFromDays(days) ==
    LET z == days + 719468
        era == z \div 146097
        doe == z - era * 146097
        yoe == (doe - doe \div 1460 + doe \div 36524 - doe \div 146096) \div 365
        doy == doe - (365 * yoe + yoe \div 4 - yoe \div 100)
        mp == (5 * doy + 2) \div 153
        d == doy - (153 * mp + 2) \div 5 + 1
        m == IF mp < 10 THEN mp + 3 ELSE mp - 9
    IN [year |-> yoe + era * 400 + (IF m <= 2 THEN 1 ELSE 0), month |-> m, day |-> d]

DaysFromCivil(y0, m, d) ==
    LET y == IF m <= 2 THEN y0 - 1 ELSE y0
        era == y \div 400
        yoe == y - era * 400
        doy == (153 * (IF m > 2 THEN m - 3 ELSE m + 9) + 2) \div 5 + d - 1
        doe == yoe * 365 + yoe \div 4 - yoe \div 100 + doy
    IN era * 146097 + doe - 719468

\* datetime.fromtimestamp(f): the wall-clock fields of f seconds after the
\* epoch, to the microsecond (the cluster's time zone is taken to be UTC)
fromtimestamp(f) ==
    LET date == CivilFromDays(f.whole \div 86400)
        rem == f.whole % 86400
    IN [year |-> date.year, month |-> date.month, day |-> date.day,
        hour |-> rem \div 3600, minute |-> (rem % 3600) \div 60,
        second |-> rem % 60, microsecond |-> f.milli * 1000]

\* variant with a fault: the text is cut to the second
DatetimeStrSeconds(dt) == <<dt.year, dt.month, dt.day, dt.hour, dt.minute, dt.second>>

\* str(datetime): "YYYY-MM-DD HH:MM:SS", followed by ".ffffff" only when
\* the microsecond is not 0; the text is held as the tuple of its fields
DatetimeStr(dt) ==
    <<dt.year, dt.month, dt.day, dt.hour, dt.minute, dt.second>>
    \o (IF dt.microsecond # 0 THEN <<dt.microsecond>> ELSE <<>>)

\* get_datetime = udf(lambda x: str(datetime.fromtimestamp(int(x) / 1000.0)))
get_datetime(x) == DatetimeStr(fromtimestamp(TrueDiv1000(x)))

\* pyspark.sql.functions on a timestamp string
year(s) == s[1]
month(s) == s[2]
dayofmonth(s) == s[3]
hour(s) == s[4]

IsoWeekday(days) == ((days + 3) % 7) + 1        \* Monday is 1
IsLeap(y) == (y % 4 = 0 /\ y % 100 # 0) \/ y % 400 = 0
IsoWeeksInYear(y) ==
    LET jan1 == IsoWeekday(DaysFromCivil(y, 1, 1))
    IN IF jan1 = 4 \/ (IsLeap(y) /\ jan1 = 3) THEN 53 ELSE 52

\* the ISO 8601 week number
weekofyear(s) ==
    LET days == DaysFromCivil(s[1], s[2], s[3])
        doy == days - DaysFromCivil(s[1], 1, 1) + 1
        w == (doy - IsoWeekday(days) + 10) \div 7
    IN IF w < 1 THEN IsoWeeksInYear(s[1] - 1)
       ELSE IF w > IsoWeeksInYear(s[1]) THEN 1 ELSE w

TimeColumns == {"start_time", "hour", "day", "week", "month", "year"}

\* df.select(col('datetime').alias('start_time'), hour('datetime')..., ...)
SelectTime(df) ==
    DataFrame(TimeColumns,
              [i \in 1..Len(df.rows) |->
                  LET s == df.rows[i].datetime
                  IN [start_time |-> s, hour |-> hour(s), day |-> dayofmonth(s),
                      week |-> weekofyear(s), month |-> month(s), year |-> year(s)]])

\* ------------------------------------------------------------ storage
input_data == "s3a://udacity-dend/"
output_data == "s3a://majala-data-eng/"

\* os.path.join(root, rest): root ends with "/", so the result is root
\* followed by rest; a path is held as the pair
os_path_join(root, rest) == <<root, rest>>

SONG_DATA == "song_data/*/*/*/*.json"         \* process_song_data
LOG_DATA == "log_data/*/*/*.json"             \* process_log_data
SONG_DATA_JOIN == "song-data/*/*/*/*.json"    \* process_log_data, for the join

InputPaths == {os_path_join(input_data, g) : g \in {SONG_DATA, LOG_DATA, SONG_DATA_JOIN}}
Tables == {"songs.parquet", "artists.parquet", "users.parquet", "time.parquet",
           "songplays.parquet"}
OutputPaths == {os_path_join(output_data, t) : t \in Tables}

\* what lies at an output path: nothing, or the table the job numbered
\* written_by wrote there (0: data from before the first run)
NoTable == [exists |-> FALSE, written_by |-> 0, columns |-> {}, partitionBy |-> <<>>, rows |-> <<>>]
StaleTable == [exists |-> TRUE, written_by |-> 0, columns |-> {"stale"},
               partitionBy |-> <<>>, rows |-> <<[stale |-> "old"]>>]

\* partitionBy(...) needs every partition column in the DataFrame's schema
\* (the writer raises AnalysisException otherwise)
PartitionColumnsFound(table, partitionBy) ==
    \A i \in 1..Len(partitionBy) : partitionBy[i] \in table.columns

\* variant with a fault: mode 'append'
WriteParquetAppend(store, path, table, partitionBy, n) ==
    [store EXCEPT ![path] = [exists |-> TRUE, written_by |-> n,
                             columns |-> store[path].columns \cup table.columns,
                             partitionBy |-> partitionBy,
                             rows |-> store[path].rows \o table.rows]]

\* table.write.partitionBy(...).parquet(path, 'overwrite')
WriteParquet(store, path, table, partitionBy, n) ==
    [store EXCEPT ![path] = [exists |-> TRUE, written_by |-> n, columns |-> table.columns,
                             partitionBy |-> partitionBy, rows |-> table.rows]]

\* dl.cfg as the set of its <<section, option>> pairs
FullConfig == {<<"Credentials", "AWS_ACCESS_KEY_ID">>, <<"Credentials", "AWS_SECRET_ACCESS_KEY">>}
ConfigFiles == {{}, {<<"Credentials", "AWS_ACCESS_KEY_ID">>},
                {<<"Credentials", "AWS_SECRET_ACCESS_KEY">>}, FullConfig}

\* -------------------------------------------------------------- state
VARIABLES
    pc,               \* the statement the process is about to execute
    run,              \* the number of this run of the job
    cfgfile,          \* dl.cfg
    fs,               \* the input root: path |-> the JSON rows under it
    out,              \* the output root: path |-> table
    env,              \* the environment variables the process has set
    spark,            \* main's session handle (0: none)
    sessions,         \* sessions acquired by this process
    stage_spark,      \* the handle each stage was called with
    df,               \* the running stage's df
    song_df,          \* process_log_data's song_df
    songplays_table,  \* process_log_data's songplays_table
    events,           \* history: the steps this run has completed, in order
    failed_at,        \* history: the step that raised
    prev_out          \* history: the output root when this run started

vars == <<pc, run, cfgfile, fs, out, env, spark, sessions, stage_spark, df, song_df,
          songplays_table, events, failed_at, prev_out>>

\* the steps of one run, in program order
Steps == <<"config", "session", "song_read", "songs_write", "artists_write",
           "log_read", "users_write", "time_write", "song_reread",
           "songplays_collect", "songplays_write">>

SampleCatalog == <<CatalogRecord("S1", "T1", "A1"), CatalogRecord("S2", "T1", "A1")>>
SampleLog == <<LogRecord(0, "U1", "T1"), LogRecord(999, "U1", NULL)>>

EmptyStore == [p \in OutputPaths |-> NoTable]
StaleStore == [p \in OutputPaths |-> StaleTable]

\* The inputs of a run: one of them ranges over its bounded set while the
\* others are samples.
Input(c, a, l, o, cf) == [c |-> c, a |-> a, l |-> l, o |-> o, cf |-> cf]

\* the catalog under song_data/ varies; song-data/ holds the same rows,
\* nothing, or other rows
CatalogInputs ==
    UNION {{Input(c, a, SampleLog, StaleStore, FullConfig) : a \in {c, <<>>, SampleCatalog}}
           : c \in SeqsUpTo(CatalogRecords, MaxCatalog)}

\* the log varies in ts, or in ts within one second, userId and song
LogInputs ==
    {Input(SampleCatalog, a, l, StaleStore, FullConfig) :
        a \in {SampleCatalog, <<CatalogRecord("S1", "T2", "A2")>>},
        l \in SeqsUpTo({LogRecord(ts, "U1", "T1") : ts \in TsValues}, MaxLog)
              \cup SeqsUpTo({LogRecord(ts, u, sg) : ts \in MsValues, u \in UserIds,
                                                   sg \in LogSongs}, MaxLog)}

\* one log row, its ts over a contiguous range
TsInputs ==
    {Input(SampleCatalog, SampleCatalog, <<LogRecord(ts, "U1", "T1")>>, EmptyStore, FullConfig) :
        ts \in 0..MaxTs}

\* dl.cfg and the state of the output root vary
ConfigInputs ==
    {Input(SampleCatalog, SampleCatalog, SampleLog, o, cf) :
        o \in {EmptyStore, StaleStore}, cf \in ConfigFiles}

Inputs == CatalogInputs \cup LogInputs \cup TsInputs \cup ConfigInputs

\* the inputs on which the job is run more than once
RerunInputs ==
    {Input(c, c, SampleLog, StaleStore, FullConfig) :
        c \in SeqsUpTo({CatalogRecord(sid, t, "A1") : sid \in SongIds, t \in Titles},
                       MaxCatalog)}
    \cup {Input(SampleCatalog, SampleCatalog, l, StaleStore, FullConfig) :
            l \in SeqsUpTo({LogRecord(0, u, "T1") : u \in UserIds}
                           \cup {LogRecord(0, "U1", sg) : sg \in LogSongs}, MaxLog)}

Start(in) ==
    /\ fs = (os_path_join(input_data, SONG_DATA) :> in.c)
            @@ (os_path_join(input_data, SONG_DATA_JOIN) :> in.a)
            @@ (os_path_join(input_data, LOG_DATA) :> in.l)
    /\ out = in.o
    /\ prev_out = in.o
    /\ cfgfile = in.cf
    /\ pc = "config"
    /\ run = 1
    /\ env = {}
    /\ spark = 0
    /\ sessions = 0
    /\ stage_spark = [process_song_data |-> 0, process_log_data |-> 0]
    /\ df = NoDF
    /\ song_df = NoDF
    /\ songplays_table = NoDF
    /\ events = <<>>
    /\ failed_at = "none"

Init == \E in \in Inputs : Start(in)

InitRerun == \E in \in RerunInputs : Start(in)

\* ------------------------------------------------------------ actions
Completed(step) == events' = Append(events, step)

\* variant with a fault: the exception is caught and the step is tried again
RaiseThenRetry(step) ==
    /\ failed_at' = step
    /\ UNCHANGED <<pc, df, song_df, songplays_table, run, cfgfile, fs, out, spark,
                   sessions, events, prev_out>>

\* an exception leaves the step: nothing catches it, the process ends
\* with the output root as it is
Raise(step) ==
    /\ pc' = "failed"
    /\ failed_at' = step
    /\ df' = NoDF
    /\ song_df' = NoDF
    /\ songplays_table' = NoDF
    /\ UNCHANGED <<run, cfgfile, fs, out, spark, sessions, events, prev_out>>

\* the write job of a step raises: mode 'overwrite' removes what is at the
\* path before the job runs, so the path holds its old data (the failure
\* came first) or nothing
WriteFails(step, path) ==
    /\ pc' = "failed"
    /\ failed_at' = step
    /\ df' = NoDF
    /\ song_df' = NoDF
    /\ songplays_table' = NoDF
    /\ out' \in {out, [out EXCEPT ![path] = NoTable]}
    /\ UNCHANGED <<run, cfgfile, fs, spark, sessions, events, prev_out>>

\* spark.read.json(path): the rows under the path; a path that matches
\* no file raises AnalysisException
ReadJson(path) == fs[path]

\* module level: config.read('dl.cfg'), then the two os.environ assignments
LoadConfig ==
    /\ pc = "config"
    /\ IF <<"Credentials", "AWS_ACCESS_KEY_ID">> \notin cfgfile
          THEN Raise("config") /\ UNCHANGED env
          ELSE IF <<"Credentials", "AWS_SECRET_ACCESS_KEY">> \notin cfgfile
                  THEN Raise("config") /\ env' = env \cup {"AWS_ACCESS_KEY_ID"}
                  ELSE /\ env' = env \cup {"AWS_ACCESS_KEY_ID", "AWS_SECRET_ACCESS_KEY"}
                       /\ pc' = "session"
                       /\ Completed("config")
                       /\ UNCHANGED <<run, cfgfile, fs, out, spark, sessions, df, song_df,
                                      songplays_table, failed_at, prev_out>>
    /\ UNCHANGED stage_spark

\* main: spark = create_spark_session()
create_spark_session ==
    /\ pc = "session"
    /\ \E ok \in BOOLEAN :
        IF ok
           THEN /\ sessions' = sessions + 1
                /\ spark' = sessions + 1
                /\ pc' = "song_read"
                /\ Completed("session")
                /\ UNCHANGED <<run, cfgfile, fs, out, df, song_df, songplays_table,
                               failed_at, prev_out>>
           ELSE Raise("session")
    /\ UNCHANGED <<env, stage_spark>>

\* main calls process_song_data(spark, ...): df = spark.read.json(song_data)
SongRead ==
    /\ pc = "song_read"
    /\ stage_spark' = [stage_spark EXCEPT !.process_song_data = spark]
    /\ \E ok \in BOOLEAN :
        LET rows == ReadJson(os_path_join(input_data, SONG_DATA))
        IN IF ok /\ Len(rows) > 0
              THEN /\ df' = DataFrame(CatalogColumns, rows)
                   /\ pc' = "songs_write"
                   /\ Completed("song_read")
                   /\ UNCHANGED <<run, cfgfile, fs, out, spark, sessions, song_df,
                                  songplays_table, failed_at, prev_out>>
              ELSE Raise("song_read")
    /\ UNCHANGED env

\* songs_table = df[...].dropDuplicates(['song_id']); its partitioned write
SongsWrite ==
    /\ pc = "songs_write"
    /\ \E ok \in BOOLEAN :
       \E songs_table \in DropDuplicates(
              Select(df, {"song_id", "title", "artist_id", "year", "duration"}), "song_id") :
        IF ~PartitionColumnsFound(songs_table, <<"year", "artist_id">>)
           THEN Raise("songs_write")
           ELSE IF ok
           THEN /\ out' = WriteParquet(out, os_path_join(output_data, "songs.parquet"),
                                       songs_table, <<"year", "artist_id">>, run)
                /\ pc' = "artists_write"
                /\ Completed("songs_write")
                /\ UNCHANGED <<run, cfgfile, fs, spark, sessions, df, song_df,
                               songplays_table, failed_at, prev_out>>
           ELSE WriteFails("songs_write", os_path_join(output_data, "songs.parquet"))
    /\ UNCHANGED <<env, stage_spark>>

\* artists_table = df[...].dropDuplicates(['artist_id']); its write; return
ArtistsWrite ==
    /\ pc = "artists_write"
    /\ \E ok \in BOOLEAN :
       \E artists_table \in DropDuplicates(
              Select(df, {"artist_id", "artist_name", "artist_location",
                          "artist_latitude", "artist_longitude"}), "artist_id") :
        IF ok
           THEN /\ out' = WriteParquet(out, os_path_join(output_data, "artists.parquet"),
                                       artists_table, <<>>, run)
                /\ pc' = "log_read"
                /\ df' = NoDF
                /\ Completed("artists_write")
                /\ UNCHANGED <<run, cfgfile, fs, spark, sessions, song_df,
                               songplays_table, failed_at, prev_out>>
           ELSE WriteFails("artists_write", os_path_join(output_data, "artists.parquet"))
    /\ UNCHANGED <<env, stage_spark>>

\* variant with a fault: process_log_data acquires a session of its own
LogReadOwnSession ==
    /\ pc = "log_read"
    /\ stage_spark' = [stage_spark EXCEPT !.process_log_data = sessions + 1]
    /\ sessions' = sessions + 1
    /\ df' = DataFrame(LogColumns, ReadJson(os_path_join(input_data, LOG_DATA)))
    /\ pc' = "users_write"
    /\ Completed("log_read")
    /\ UNCHANGED <<run, cfgfile, fs, out, spark, env, song_df, songplays_table,
                   failed_at, prev_out>>

\* main calls process_log_data(spark, ...): df = spark.read.json(log_data)
LogRead ==
    /\ pc = "log_read"
    /\ stage_spark' = [stage_spark EXCEPT !.process_log_data = spark]
    /\ \E ok \in BOOLEAN :
        LET rows == ReadJson(os_path_join(input_data, LOG_DATA))
        IN IF ok /\ Len(rows) > 0
              THEN /\ df' = DataFrame(LogColumns, rows)
                   /\ pc' = "users_write"
                   /\ Completed("log_read")
                   /\ UNCHANGED <<run, cfgfile, fs, out, spark, sessions, song_df,
                                  songplays_table, failed_at, prev_out>>
              ELSE Raise("log_read")
    /\ UNCHANGED env

\* songplays_table = df['ts', ...]; users_table = df[...]
\* .dropDuplicates(['userId']); its write
UsersWrite ==
    /\ pc = "users_write"
    /\ \E ok \in BOOLEAN :
       \E users_table \in DropDuplicates(
              Select(df, {"userId", "firstName", "lastName", "gender", "level"}), "userId") :
        IF ok
           THEN /\ songplays_table' =
                       Select(df, {"ts", "userId", "level", "sessionId", "location", "userAgent"})
                /\ out' = WriteParquet(out, os_path_join(output_data, "users.parquet"),
                                       users_table, <<>>, run)
                /\ pc' = "time_write"
                /\ Completed("users_write")
                /\ UNCHANGED <<run, cfgfile, fs, spark, sessions, df, song_df,
                               failed_at, prev_out>>
           ELSE WriteFails("users_write", os_path_join(output_data, "users.parquet"))
    /\ UNCHANGED <<env, stage_spark>>

\* the timestamp and datetime columns; time_table = df.select(...)
\* .dropDuplicates(['start_time']); its partitioned write
TimeWrite ==
    /\ pc = "time_write"
    /\ \E ok \in BOOLEAN :
        LET df1 == WithColumn(df, "timestamp",
                              [i \in 1..Len(df.rows) |-> get_timestamp(df.rows[i].ts)])
            df2 == WithColumn(df1, "datetime",
                              [i \in 1..Len(df1.rows) |-> get_datetime(df1.rows[i].ts)])
        IN \E time_table \in DropDuplicates(SelectTime(df2), "start_time") :
            IF ~PartitionColumnsFound(time_table, <<"year", "month">>)
               THEN Raise("time_write")
               ELSE IF ok
               THEN /\ df' = df2
                    /\ out' = WriteParquet(out, os_path_join(output_data, "time.parquet"),
                                           time_table, <<"year", "month">>, run)
                    /\ pc' = "song_reread"
                    /\ Completed("time_write")
                    /\ UNCHANGED <<run, cfgfile, fs, spark, sessions, song_df,
                                   songplays_table, failed_at, prev_out>>
               ELSE WriteFails("time_write", os_path_join(output_data, "time.parquet"))
    /\ UNCHANGED <<env, stage_spark>>

\* song_df = spark.read.json(os.path.join(input_data, "song-data/*/*/*/*.json"))
SongReread ==
    /\ pc = "song_reread"
    /\ \E ok \in BOOLEAN :
        LET rows == ReadJson(os_path_join(input_data, SONG_DATA_JOIN))
        IN IF ok /\ Len(rows) > 0
              THEN /\ song_df' = DataFrame(CatalogColumns, rows)
                   /\ pc' = "songplays_collect"
                   /\ Completed("song_reread")
                   /\ UNCHANGED <<run, cfgfile, fs, out, spark, sessions, df,
                                  songplays_table, failed_at, prev_out>>
              ELSE Raise("song_reread")
    /\ UNCHANGED <<env, stage_spark>>

\* df = df.join(song_df, ...); songplays_table = df[...]; the collect() of
\* the generated ids, whose result is dropped
SongplaysCollect ==
    /\ pc = "songplays_collect"
    /\ \E ok \in BOOLEAN :
        LET joined == Join(df, song_df)
        IN IF ok
              THEN /\ df' = joined
                   /\ songplays_table' =
                          Select(joined, {"userId", "level", "song_id", "artist_id",
                                          "sessionId", "location", "userAgent"})
                   /\ pc' = "songplays_write"
                   /\ Completed("songplays_collect")
                   /\ UNCHANGED <<run, cfgfile, fs, out, spark, sessions, song_df,
                                  failed_at, prev_out>>
              ELSE Raise("songplays_collect")
    /\ UNCHANGED <<env, stage_spark>>

\* songplays_table.write.partitionBy('year', 'month').parquet(...); return;
\* main returns
SongplaysWrite ==
    /\ pc = "songplays_write"
    /\ \E ok \in BOOLEAN :
        IF ~PartitionColumnsFound(songplays_table, <<"year", "month">>)
           THEN Raise("songplays_write")
           ELSE IF ok
           THEN /\ out' = WriteParquet(out, os_path_join(output_data, "songplays.parquet"),
                                       songplays_table, <<"year", "month">>, run)
                /\ pc' = "done"
                /\ df' = NoDF
                /\ song_df' = NoDF
                /\ songplays_table' = NoDF
                /\ Completed("songplays_write")
                /\ UNCHANGED <<run, cfgfile, fs, spark, sessions, failed_at, prev_out>>
           ELSE WriteFails("songplays_write", os_path_join(output_data, "songplays.parquet"))
    /\ UNCHANGED <<env, stage_spark>>

\* the job is started again on the same inputs: a new process
Rerun ==
    /\ pc \in {"done", "failed"}
    /\ run < MaxRuns
    /\ run' = run + 1
    /\ pc' = "config"
    /\ env' = {}
    /\ spark' = 0
    /\ sessions' = 0
    /\ stage_spark' = [process_song_data |-> 0, process_log_data |-> 0]
    /\ df' = NoDF
    /\ song_df' = NoDF
    /\ songplays_table' = NoDF
    /\ events' = <<>>
    /\ failed_at' = "none"
    /\ prev_out' = out
    /\ UNCHANGED <<cfgfile, fs, out>>

\* one run of the process
main ==
    \/ LoadConfig
    \/ create_spark_session
    \/ SongRead
    \/ SongsWrite
    \/ ArtistsWrite
    \/ LogRead
    \/ UsersWrite
    \/ TimeWrite
    \/ SongReread
    \/ SongplaysCollect
    \/ SongplaysWrite

Next == main \/ Rerun

\* one run of the job
Spec == Init /\ [][main]_vars

\* the job run up to MaxRuns times on the same inputs
SpecRerun == InitRerun /\ [][Next]_vars

\* ------------------------------------------------- the claims: helpers
SongsPath == os_path_join(output_data, "songs.parquet")
ArtistsPath == os_path_join(output_data, "artists.parquet")
UsersPath == os_path_join(output_data, "users.parquet")
TimePath == os_path_join(output_data, "time.parquet")
SongplaysPath == os_path_join(output_data, "songplays.parquet")

CatalogInput == fs[os_path_join(input_data, SONG_DATA)]
LogInput == fs[os_path_join(input_data, LOG_DATA)]

WrittenNow(p) == out[p].exists /\ out[p].written_by = run
Indices(rows) == 1..Len(rows)
Restrict(r, cols) == [c \in cols |-> r[c]]
KeyUnique(rows, key) ==
    \A i, j \in Indices(rows) : rows[i][key] = rows[j][key] => i = j

StepIndex(step) == CHOOSE k \in 1..Len(Steps) : Steps[k] = step
\* the step whose completion writes table t
WriteStep(t) ==
    CASE t = "songs.parquet" -> "songs_write"
      [] t = "artists.parquet" -> "artists_write"
      [] t = "users.parquet" -> "users_write"
      [] t = "time.parquet" -> "time_write"
      [] OTHER -> "songplays_write"
Completes(step) == \E k \in Indices(events) : events[k] = step

\* C1: once process_song_data has written the songs table, the table has
\* exactly one row for every song_id of the catalog input and no other
\* row, and each row is the (song_id, title, artist_id, year, duration) of
\* one single input record.
SongColumns == {"song_id", "title", "artist_id", "year", "duration"}
C1_SongsOneRowPerSongId ==
    WrittenNow(SongsPath) =>
        LET rows == out[SongsPath].rows
        IN /\ out[SongsPath].columns = SongColumns
           /\ \A i \in Indices(CatalogInput) :
                  Cardinality({k \in Indices(rows) :
                                  rows[k].song_id = CatalogInput[i].song_id}) = 1
           /\ \A k \in Indices(rows) :
                  \E i \in Indices(CatalogInput) :
                      rows[k] = Restrict(CatalogInput[i], SongColumns)

\* two input records share a song_id and differ in title and artist_id,
\* and the written table holds one of them
C1_Witness ==
    /\ WrittenNow(SongsPath)
    /\ Len(CatalogInput) = 2
    /\ CatalogInput[1].song_id = CatalogInput[2].song_id
    /\ CatalogInput[1].title # CatalogInput[2].title
    /\ CatalogInput[1].artist_id # CatalogInput[2].artist_id
    /\ Len(out[SongsPath].rows) = 1
    /\ out[SongsPath].rows[1].title = CatalogInput[2].title

\* C2: a written artists, users or time table has no two rows with the
\* same artist_id, userId or start_time.
C2_KeysUnique ==
    /\ WrittenNow(ArtistsPath) => KeyUnique(out[ArtistsPath].rows, "artist_id")
    /\ WrittenNow(UsersPath) => KeyUnique(out[UsersPath].rows, "userId")
    /\ WrittenNow(TimePath) => KeyUnique(out[TimePath].rows, "start_time")

\* all three tables are written from inputs that repeat every key
C2_Witness ==
    /\ WrittenNow(ArtistsPath) /\ WrittenNow(UsersPath) /\ WrittenNow(TimePath)
    /\ Len(CatalogInput) = 2 /\ Len(LogInput) = 2
    /\ CatalogInput[1].artist_id = CatalogInput[2].artist_id
    /\ CatalogInput[1].artist_name # CatalogInput[2].artist_name
    /\ LogInput[1].userId = LogInput[2].userId
    /\ LogInput[1].level # LogInput[2].level
    /\ LogInput[1].ts = LogInput[2].ts
    /\ Len(out[ArtistsPath].rows) = 1
    /\ Len(out[UsersPath].rows) = 1
    /\ Len(out[TimePath].rows) = 1

\* C3: the songplays table holds one row for every pair of a log record
\* and a catalog record (as loaded for the join) with song = title, and no
\* other row: a log record matching k catalog records gives k rows, an
\* unmatched one gives none, and without any match the table is empty.
SongplaysColumns ==
    {"userId", "level", "song_id", "artist_id", "sessionId", "location", "userAgent"}
MatchingPairs ==
    {p \in Indices(LogInput) \X Indices(song_df.rows) :
        /\ LogInput[p[1]].song # NULL
        /\ LogInput[p[1]].song = song_df.rows[p[2]].title}
PairRow(p) ==
    [c \in SongplaysColumns |->
        IF c \in {"song_id", "artist_id"} THEN song_df.rows[p[2]][c] ELSE LogInput[p[1]][c]]
JoinedAsClaimed(rows) ==
    /\ Len(rows) = Cardinality(MatchingPairs)
    /\ \A v \in {rows[k] : k \in Indices(rows)} \cup {PairRow(p) : p \in MatchingPairs} :
           Cardinality({k \in Indices(rows) : rows[k] = v})
               = Cardinality({p \in MatchingPairs : PairRow(p) = v})
C3_SongplaysInnerJoin ==
    /\ pc = "songplays_write" => JoinedAsClaimed(songplays_table.rows)
    /\ pc = "done" => JoinedAsClaimed(out[SongplaysPath].rows)

\* one log record matches two catalog records and the other none: two rows
C3_Witness ==
    /\ pc = "songplays_write"
    /\ Len(LogInput) = 2 /\ Len(song_df.rows) = 2
    /\ LogInput[1].song = song_df.rows[1].title
    /\ LogInput[1].song = song_df.rows[2].title
    /\ LogInput[2].song \notin {song_df.rows[1].title, song_df.rows[2].title, NULL}
    /\ Len(songplays_table.rows) = 2

\* C4: the table handed to the songplays write has the columns userId,
\* level, song_id, artist_id, sessionId, location, userAgent, year, month
\* and start_time, and its partition columns year and month are among its
\* columns, so that the write can complete.
C4_SongplaysWritable ==
    pc = "songplays_write" =>
        /\ songplays_table.columns = SongplaysColumns \cup {"year", "month", "start_time"}
        /\ PartitionColumnsFound(songplays_table, <<"year", "month">>)

\* C5: the catalog records process_log_data loads for the join are the
\* records process_song_data loaded.
C5_SameCatalogGlob ==
    pc = "songplays_collect" => song_df.rows = CatalogInput

DigitValue(c) == CHOOSE d \in 0..9 : DigitChars[d + 1] = c
RECURSIVE StrToInt(_)
StrToInt(str) ==
    IF Len(str) = 0 THEN 0
    ELSE StrToInt(SubSeq(str, 1, Len(str) - 1)) * 10 + DigitValue(str[Len(str)])

\* C6: the timestamp column of every row is the decimal text of the
\* number n of whole seconds in ts: n * 1000 <= ts < (n + 1) * 1000; rows
\* with the same ts have the same timestamp.
C6_TimestampTruncates ==
    "timestamp" \in df.columns =>
        \A i \in Indices(df.rows) :
            LET n == StrToInt(df.rows[i].timestamp)
            IN /\ n * 1000 <= df.rows[i].ts
               /\ df.rows[i].ts < (n + 1) * 1000
               /\ df.rows[i].timestamp = PyStr(n)
               /\ \A j \in Indices(df.rows) :
                      df.rows[j].ts = df.rows[i].ts
                          => df.rows[j].timestamp = df.rows[i].timestamp

\* a ts 999 ms into its second keeps that second
C6_Witness ==
    /\ "timestamp" \in df.columns
    /\ \E i \in Indices(df.rows) :
           /\ df.rows[i].ts = 1999
           /\ df.rows[i].timestamp = <<"1">>

SameSecond(a, b) == a \div 1000 = b \div 1000
HasDatetime == "datetime" \in df.columns
\* the rows of the time table whose start_time lies in the second of dt
TimeRowsOfSecond(dt) ==
    {k \in Indices(out[TimePath].rows) :
        SubSeq(out[TimePath].rows[k].start_time, 1, 6) = SubSeq(dt, 1, 6)}

\* C7 as claimed: log records whose ts lie in the same second get the same
\* datetime, and the time table holds exactly one row for that second.
C7_DatetimeTruncated ==
    HasDatetime =>
        \A i, j \in Indices(df.rows) :
            SameSecond(df.rows[i].ts, df.rows[j].ts) =>
                /\ df.rows[i].datetime = df.rows[j].datetime
                /\ WrittenNow(TimePath) =>
                       Cardinality(TimeRowsOfSecond(df.rows[i].datetime)) = 1

\* C7 as amended: the datetime keeps the millisecond part of ts.  Log
\* records whose ts lie in the same second get the same datetime exactly
\* when their ts are equal, and the time table holds one row for every
\* distinct ts of that second.
C7_DatetimeKeepsMillis ==
    HasDatetime =>
        \A i \in Indices(df.rows) :
            /\ \A j \in Indices(df.rows) :
                   SameSecond(df.rows[i].ts, df.rows[j].ts) =>
                       (df.rows[i].datetime = df.rows[j].datetime
                            <=> df.rows[i].ts = df.rows[j].ts)
            /\ WrittenNow(TimePath) =>
                   Cardinality(TimeRowsOfSecond(df.rows[i].datetime))
                       = Cardinality({LogInput[j].ts : j \in
                             {j \in Indices(LogInput) :
                                 SameSecond(df.rows[i].ts, LogInput[j].ts)}})

\* two log records 999 ms apart in one second: two rows in the time table
C7_Witness ==
    /\ HasDatetime
    /\ WrittenNow(TimePath)
    /\ Len(df.rows) = 2
    /\ df.rows[1].ts # df.rows[2].ts
    /\ SameSecond(df.rows[1].ts, df.rows[2].ts)
    /\ Len(out[TimePath].rows) = 2

\* the column a table is deduplicated by
KeyColumn(t) ==
    CASE t = "songs.parquet" -> "song_id"
      [] t = "artists.parquet" -> "artist_id"
      [] t = "users.parquet" -> "userId"
      [] t = "time.parquet" -> "start_time"
      [] OTHER -> "userId"
KeysOf(rows, key) == {rows[k][key] : k \in Indices(rows)}
\* equal up to the order of the rows and the survivor of each group
SameContents(a, b, t) ==
    /\ a.exists = b.exists
    /\ a.columns = b.columns
    /\ a.partitionBy = b.partitionBy
    /\ Len(a.rows) = Len(b.rows)
    /\ IF t = "songplays.parquet"
          THEN {a.rows[k] : k \in Indices(a.rows)} = {b.rows[k] : k \in Indices(b.rows)}
          ELSE KeysOf(a.rows, KeyColumn(t)) = KeysOf(b.rows, KeyColumn(t))

\* C8: when the job is run again on the same inputs, every table an
\* earlier run wrote has, throughout the later run, the contents the
\* earlier run left, up to row order and the survivor of each group of
\* duplicates (unless the later run's own write of it raised); and a table
\* a run has written holds no row of what was at its path before.
C8_RerunIdempotent ==
    \A t \in Tables :
        LET p == os_path_join(output_data, t)
        IN /\ (run > 1 /\ prev_out[p].written_by > 0 /\ failed_at # WriteStep(t)) =>
                   SameContents(out[p], prev_out[p], t)
           /\ WrittenNow(p) => "stale" \notin out[p].columns

\* the second run has rewritten all four tables over those of the first,
\* with another survivor in the songs table
C8_Witness ==
    /\ run = 2
    /\ pc = "songplays_write"
    /\ \A t \in Tables \ {"songplays.parquet"} :
           /\ WrittenNow(os_path_join(output_data, t))
           /\ prev_out[os_path_join(output_data, t)].written_by = 1
    /\ out[SongsPath].rows # prev_out[SongsPath].rows

\* C9: once a step has raised, the process has failed at that step: the
\* steps completed are exactly those before it, the tables written in this
\* run are exactly those of the write steps before it, and every other
\* path is as the run found it (the path of a write that raised may have
\* been emptied).
C9_FailureEndsRun ==
    failed_at # "none" =>
        /\ pc = "failed"
        /\ failed_at \in {Steps[k] : k \in 1..Len(Steps)}
        /\ events = SubSeq(Steps, 1, StepIndex(failed_at) - 1)
        /\ \A t \in Tables :
               /\ WrittenNow(os_path_join(output_data, t)) <=> Completes(WriteStep(t))
               /\ ~Completes(WriteStep(t)) =>
                      \/ out[os_path_join(output_data, t)] = prev_out[os_path_join(output_data, t)]
                      \/ /\ failed_at = WriteStep(t)
                         /\ out[os_path_join(output_data, t)] = NoTable

\* the time write raised: users is written, time and songplays are not
C9_Witness ==
    /\ pc = "failed"
    /\ failed_at = "time_write"
    /\ WrittenNow(UsersPath)
    /\ ~WrittenNow(TimePath)
    /\ out[TimePath] = StaleTable

\* C10: the steps of a run are completed in the one program order, each
\* at most once; the credentials are in the environment before the
\* session is acquired; the session is acquired at most once and both
\* stages are called with it; a stage's tables are written only in their
\* order, songs, artists, users, time, songplays; and process_log_data
\* starts only after process_song_data has returned.
C10_FixedOrder ==
    /\ events = SubSeq(Steps, 1, Len(events))
    /\ Len(events) <= Len(Steps)
    /\ pc \notin {"failed", "done"} => pc = Steps[Len(events) + 1]
    /\ sessions <= 1
    /\ Completes("session") =>
           /\ sessions = 1 /\ spark = 1
           /\ env = {"AWS_ACCESS_KEY_ID", "AWS_SECRET_ACCESS_KEY"}
    /\ ~Completes("session") => sessions = 0 /\ spark = 0
    /\ stage_spark.process_song_data \in {0, spark}
    /\ stage_spark.process_log_data \in {0, spark}
    /\ Completes("song_read") => stage_spark.process_song_data = 1
    /\ Completes("log_read") => stage_spark.process_log_data = 1
    /\ stage_spark.process_log_data # 0 => Completes("artists_write")
    /\ \A t \in Tables :
           WrittenNow(os_path_join(output_data, t)) <=> Completes(WriteStep(t))

\* a run that has completed every step up to the songplays write
C10_Witness ==
    /\ pc = "songplays_write"
    /\ events = SubSeq(Steps, 1, 10)
    /\ sessions = 1
    /\ stage_spark = [process_song_data |-> 1, process_log_data |-> 1]
    /\ \A t \in Tables \ {"songplays.parquet"} : WrittenNow(os_path_join(output_data, t))
====
